---- MODULE Spec2Model ----
(***************************************************************************)
(* Model of src/main.py: the module-level construction of the Pub/Sub      *)
(* publisher binding (PROJECT_ID, PUBSUB_TOPIC_ID, PUBLISHER, TOPIC_PATH)   *)
(* and the handler process_gcs_file(event, context), executed by one or    *)
(* more workers of the hosting platform.                                   *)
(*                                                                         *)
(* Python values are records [t |-> type, v |-> literal text]; a key that  *)
(* a dict does not hold is the marker Absent.                              *)
(***************************************************************************)
EXTENDS Naturals, Sequences, FiniteSets, TLC

\* Number of platform workers that may run process_gcs_file at once.
NumWorkers == 2

Workers == 1..NumWorkers

\* The worker of a process that handles one event at a time.
SeqWorkers == {1}

----------------------------------------------------------------------------
\* Python values

Absent == [t |-> "absent", v |-> ""]

PyNone == [t |-> "none", v |-> ""]

PyStr(s) == [t |-> "str", v |-> s]

PyInt(s) == [t |-> "int", v |-> s]

PyBytes == [t |-> "bytes", v |-> "00"]

PyDatetime == [t |-> "datetime", v |-> "2024-01-01 00:00:00"]

\* bool(x): None, 0 and "" are falsy, every other value is truthy.
Truthy(x) ==
    CASE x.t = "none" -> FALSE
      [] x.t = "absent" -> FALSE
      [] x.t = "int" -> x.v # "0"
      [] x.t = "str" -> x.v # ""
      [] OTHER -> TRUE

\* dict.get(key): None when the key is absent.
Get(d, k) == IF d[k] = Absent THEN PyNone ELSE d[k]

\* json.dumps accepts None, int and str scalars; bytes and datetime raise TypeError.
Serializable(x) == x.t \in {"none", "int", "str", "absent"}

\* json.dumps of a scalar: null, the decimal literal, or the quoted string.
DumpsScalar(x) ==
    CASE x.t = "none" -> "null"
      [] x.t = "int" -> x.v
      [] x.t = "str" -> "\"" \o x.v \o "\""

SENTINEL == PyStr("N/A (Context not provided or attribute missing)")

FieldKeys == {"name", "size", "contentType", "bucket"}

MessageKeys == <<"fileName", "fileSize", "fileFormat", "bucketName", "timestamp">>

----------------------------------------------------------------------------
\* Inputs of the handler

NoData == [kind |-> "absent", name |-> Absent, size |-> Absent,
           contentType |-> Absent, bucket |-> Absent]

\* A value under 'data' that is not a dict (a truthy string).
StrData == [NoData EXCEPT !.kind = "str"]

DictData ==
    [kind : {"dict"},
     name : {Absent, PyStr("x.png")},
     size : {Absent, PyInt("0"), PyInt("55")},
     contentType : {Absent, PyStr("image/png")},
     bucket : {Absent, PyStr("b2")}]

DataValues == {NoData, StrData} \cup DictData

\* Events that are dicts; 'other' is a key the handler does not read.
DictEvents ==
    [kind : {"dict"},
     name : {Absent, PyStr("a.csv")},
     size : {Absent, PyInt("0"), PyInt("1024"), PyStr("1024")},
     contentType : {Absent, PyStr("text/csv")},
     bucket : {Absent, PyStr("b1")},
     data : DataValues,
     other : {Absent, PyBytes}]

EmptyEvent == [kind |-> "dict", name |-> Absent, size |-> Absent,
               contentType |-> Absent, bucket |-> Absent, data |-> NoData,
               other |-> Absent]

\* Events that are no dicts: a JSON list, and an event object json cannot encode.
OtherEvents == {[EmptyEvent EXCEPT !.kind = "list"], [EmptyEvent EXCEPT !.kind = "object"]}

Events == DictEvents \cup OtherEvents

NoEvent == [EmptyEvent EXCEPT !.kind = "idle"]

\* context=None
NoContext == [kind |-> "none", truthy |-> FALSE, attr |-> Absent, item |-> Absent]

\* A context is None, an object (attr: its timestamp attribute; truthy: its
\* __bool__/__len__), or a dict (item: its 'timestamp' key; truthy iff non-empty).
Contexts ==
    {NoContext}
    \cup [kind : {"object"}, truthy : {TRUE},
          attr : {Absent, PyStr("2024-01-01T00:00:00Z"), PyDatetime}, item : {Absent}]
    \cup [kind : {"object"}, truthy : {FALSE},
          attr : {PyStr("2024-01-01T00:00:00Z")}, item : {Absent}]
    \cup {[kind |-> "mapping", truthy |-> TRUE, attr |-> Absent,
           item |-> PyStr("2024-01-01T00:00:00Z")],
          [kind |-> "mapping", truthy |-> FALSE, attr |-> Absent, item |-> Absent]}

\* Inputs of concurrent invocations: every worker's values are its own.
OwnStr(i, s) == PyStr(s \o ToString(i))

ConcEvents(i) ==
    {[EmptyEvent EXCEPT !.name = OwnStr(i, "a"), !.size = PyInt(ToString(i)),
                        !.contentType = OwnStr(i, "text/"), !.bucket = OwnStr(i, "b")],
     [EmptyEvent EXCEPT !.size = PyInt(ToString(i)),
                        !.data = [kind |-> "dict", name |-> OwnStr(i, "x"),
                                  size |-> PyInt(ToString(i) \o "0"),
                                  contentType |-> OwnStr(i, "image/"),
                                  bucket |-> OwnStr(i, "c")]]}

ConcContexts(i) ==
    {NoContext,
     [kind |-> "object", truthy |-> TRUE, attr |-> OwnStr(i, "2024-01-0"), item |-> Absent]}

----------------------------------------------------------------------------
\* State

VARIABLES
    PROJECT_ID,       \* os.environ.get('GCP_PROJECT')
    PUBSUB_TOPIC_ID,  \* os.environ.get('PUBSUB_TOPIC_ID')
    PUBLISHER,        \* module global: the client, or None
    TOPIC_PATH,       \* module global: the topic path, or None
    procPc,           \* "import" while the module body runs, then "serving"
    pc,               \* per worker: position in process_gcs_file
    event,            \* per worker: argument event
    context,          \* per worker: argument context
    timestamp,        \* per worker: local timestamp
    locals,           \* per worker: file_name, file_size, file_format, bucket_name
    message_json,     \* per worker: local message_json
    sent,             \* per worker: the arguments of its PUBLISHER.publish call
    pubCalls,         \* per worker: publish calls made by the current invocation
    future,           \* per worker: the future publish returned
    message_id,       \* per worker: local message_id
    outcome           \* per worker: how the current invocation ended

binding == <<PROJECT_ID, PUBSUB_TOPIC_ID, PUBLISHER, TOPIC_PATH, procPc>>

frame == <<pc, event, context, timestamp, locals, message_json, sent, pubCalls,
           future, message_id, outcome>>

vars == <<PROJECT_ID, PUBSUB_TOPIC_ID, PUBLISHER, TOPIC_PATH, procPc, pc, event,
          context, timestamp, locals, message_json, sent, pubCalls, future,
          message_id, outcome>>

PublisherClient == [t |-> "client", v |-> "PublisherClient"]

NoLocals == [file_name |-> PyNone, file_size |-> PyNone, file_format |-> PyNone,
             bucket_name |-> PyNone]

NoJson == <<>>

NoSent == [topic |-> PyNone, data |-> [encoding |-> "none", text |-> NoJson]]

NoFuture == [state |-> "none", id |-> PyNone]

Init ==
    /\ PROJECT_ID \in {PyNone, PyStr("my-project")}
    /\ PUBSUB_TOPIC_ID \in {PyNone, PyStr("my-topic")}
    /\ PUBLISHER = PyNone
    /\ TOPIC_PATH = PyNone
    /\ procPc = "import"
    /\ pc = [i \in Workers |-> "idle"]
    /\ event = [i \in Workers |-> NoEvent]
    /\ context = [i \in Workers |-> NoContext]
    /\ timestamp = [i \in Workers |-> PyNone]
    /\ locals = [i \in Workers |-> NoLocals]
    /\ message_json = [i \in Workers |-> NoJson]
    /\ sent = [i \in Workers |-> NoSent]
    /\ pubCalls = [i \in Workers |-> 0]
    /\ future = [i \in Workers |-> NoFuture]
    /\ message_id = [i \in Workers |-> PyNone]
    /\ outcome = [i \in Workers |-> "none"]

----------------------------------------------------------------------------
\* Module body, lines 10-35

\* PublisherClient.topic_path(project, topic)
topic_path(project, topic) == PyStr("projects/" \o project.v \o "/topics/" \o topic.v)

\* Lines 26-35: the binding is built only when both variables are set; a failure
\* of the constructor or of topic_path is caught and leaves what was assigned.
ModuleInit ==
    /\ procPc = "import"
    /\ procPc' = "serving"
    /\ UNCHANGED <<PROJECT_ID, PUBSUB_TOPIC_ID>>
    /\ UNCHANGED frame
    /\ IF Truthy(PROJECT_ID) /\ Truthy(PUBSUB_TOPIC_ID)
       THEN \/ /\ PUBLISHER' = PublisherClient
               /\ TOPIC_PATH' = topic_path(PROJECT_ID, PUBSUB_TOPIC_ID)
            \/ /\ PUBLISHER' = PyNone
               /\ TOPIC_PATH' = PyNone
            \/ /\ PUBLISHER' = PublisherClient
               /\ TOPIC_PATH' = PyNone
       ELSE /\ PUBLISHER' = PyNone
            /\ TOPIC_PATH' = PyNone

----------------------------------------------------------------------------
\* process_gcs_file, lines 38-124

\* The platform calls process_gcs_file(event, context) on an idle worker.
Call(i, e, c) ==
    /\ pc' = [pc EXCEPT ![i] = "log"]
    /\ event' = [event EXCEPT ![i] = e]
    /\ context' = [context EXCEPT ![i] = c]
    /\ UNCHANGED <<timestamp, locals, message_json, sent, pubCalls, future,
                   message_id, outcome>>
    /\ UNCHANGED binding

\* A worker takes an event once the module is loaded and its last call returned.
Ready(i) == procPc = "serving" /\ pc[i] = "idle"

Invoke(i) == Ready(i) /\ \E e \in Events, c \in Contexts : Call(i, e, c)

InvokeConc(i) ==
    Ready(i) /\ \E e \in ConcEvents(i), c \in ConcContexts(i) : Call(i, e, c)

\* Whether json.dumps(event, indent=2) returns.
EventSerializable(e) ==
    /\ e.kind # "object"
    /\ \A k \in FieldKeys \cup {"other"} : Serializable(e[k])
    /\ \A k \in FieldKeys : Serializable(e.data[k])

\* The except clause of lines 121-124: log, and return normally.
OnException(i) ==
    /\ pc' = [pc EXCEPT ![i] = "done"]
    /\ outcome' = [outcome EXCEPT ![i] = "skipped_error"]

\* Lines 48-52, before the try: an exception of json.dumps leaves the function.
LogPayload(i) ==
    /\ pc[i] = "log"
    /\ IF EventSerializable(event[i])
       THEN /\ pc' = [pc EXCEPT ![i] = "context"]
            /\ UNCHANGED outcome
       ELSE /\ pc' = [pc EXCEPT ![i] = "done"]
            /\ outcome' = [outcome EXCEPT ![i] = "raised"]
    /\ UNCHANGED <<event, context, timestamp, locals, message_json, sent, pubCalls,
                   future, message_id>>
    /\ UNCHANGED binding

\* getattr(context, 'timestamp', default): a dict has keys, not attributes.
getattr_timestamp(c, default) ==
    IF c.kind = "object" /\ c.attr # Absent THEN c.attr ELSE default

\* Lines 57-70.
ResolveTimestamp(c) ==
    IF c.truthy THEN getattr_timestamp(c, SENTINEL) ELSE SENTINEL

ResolveContext(i) ==
    /\ pc[i] = "context"
    /\ timestamp' = [timestamp EXCEPT ![i] = ResolveTimestamp(context[i])]
    /\ pc' = [pc EXCEPT ![i] = "extract"]
    /\ UNCHANGED <<event, context, locals, message_json, sent, pubCalls, future,
                   message_id, outcome>>
    /\ UNCHANGED binding

\* all([file_name, file_size, file_format, bucket_name])
AllTruthy(l) ==
    Truthy(l.file_name) /\ Truthy(l.file_size) /\ Truthy(l.file_format)
        /\ Truthy(l.bucket_name)

\* Lines 77-80 and 88-91: the four .get calls on a dict.
GetFields(d) ==
    [file_name |-> Get(d, "name"), file_size |-> Get(d, "size"),
     file_format |-> Get(d, "contentType"), bucket_name |-> Get(d, "bucket")]

\* Line 86: event_data and isinstance(event_data, dict); an empty dict is falsy.
UsableData(d) ==
    /\ d.kind = "dict"
    /\ \E k \in FieldKeys : d[k] # Absent

\* A plausible slip: only the fields missing at the top level are taken from 'data'.
ExtractFieldsMerge(e) ==
    LET top == GetFields(e)
        nested == GetFields(e.data)
    IN  IF ~AllTruthy(top) /\ UsableData(e.data)
        THEN [k \in DOMAIN top |-> IF Truthy(top[k]) THEN top[k] ELSE nested[k]]
        ELSE top

\* A plausible slip: 'data' is preferred whenever it is usable.
ExtractFieldsDataFirst(e) ==
    IF UsableData(e.data) THEN GetFields(e.data) ELSE GetFields(e)

\* A plausible slip: the fallback to 'data' is left out.
ExtractFieldsTopOnly(e) == GetFields(e)

\* Lines 77-93.
ExtractFields(e) ==
    LET top == GetFields(e)
    IN  IF ~AllTruthy(top) /\ UsableData(e.data) THEN GetFields(e.data) ELSE top

\* Lines 77-97: event.get on a non-dict raises AttributeError inside the try.
Extract(i) ==
    /\ pc[i] = "extract"
    /\ IF event[i].kind # "dict"
       THEN /\ OnException(i)
            /\ UNCHANGED locals
       ELSE /\ locals' = [locals EXCEPT ![i] = ExtractFields(event[i])]
            /\ IF AllTruthy(ExtractFields(event[i]))
               THEN /\ pc' = [pc EXCEPT ![i] = "build"]
                    /\ UNCHANGED outcome
               ELSE /\ pc' = [pc EXCEPT ![i] = "done"]
                    /\ outcome' = [outcome EXCEPT ![i] = "skipped_missing"]
    /\ UNCHANGED <<event, context, timestamp, message_json, sent, pubCalls, future,
                   message_id>>
    /\ UNCHANGED binding

\* Lines 100-106: the dict handed to json.dumps, in key order.
message_data(l, ts) ==
    <<l.file_name, l.file_size, l.file_format, l.bucket_name, ts>>

\* json.dumps(message_data): the key/value pairs in order.
Dumps(m) ==
    [k \in 1..Len(m) |-> <<MessageKeys[k], DumpsScalar(m[k])>>]

\* message_json.encode('utf-8')
Encode(text) == [encoding |-> "utf-8", text |-> text]

\* A plausible slip: the message is built from variables shared by all workers.
BuildMessageShared(i) ==
    /\ pc[i] = "build"
    /\ message_json' = [message_json EXCEPT
                          ![i] = Dumps(message_data(locals[1], timestamp[1]))]
    /\ pc' = [pc EXCEPT ![i] = "publish"]
    /\ UNCHANGED <<event, context, timestamp, locals, sent, pubCalls, future,
                   message_id, outcome>>
    /\ UNCHANGED binding

\* Lines 100-107: json.dumps raises TypeError on a value it cannot encode.
BuildMessage(i) ==
    /\ pc[i] = "build"
    /\ LET m == message_data(locals[i], timestamp[i])
       IN  IF \A k \in 1..Len(m) : Serializable(m[k])
           THEN /\ message_json' = [message_json EXCEPT ![i] = Dumps(m)]
                /\ pc' = [pc EXCEPT ![i] = "publish"]
                /\ UNCHANGED outcome
           ELSE /\ OnException(i)
                /\ UNCHANGED message_json
    /\ UNCHANGED <<event, context, timestamp, locals, sent, pubCalls, future,
                   message_id>>
    /\ UNCHANGED binding

\* Line 110: PUBLISHER and TOPIC_PATH
Formed == Truthy(PUBLISHER) /\ Truthy(TOPIC_PATH)

\* Lines 110-113 and 118-119: publish returns a future, or raises.
Publish(i) ==
    /\ pc[i] = "publish"
    /\ IF Formed
       THEN /\ pubCalls' = [pubCalls EXCEPT ![i] = @ + 1]
            /\ sent' = [sent EXCEPT ![i] = [topic |-> TOPIC_PATH,
                                            data |-> Encode(message_json[i])]]
            /\ \/ /\ future' = [future EXCEPT ![i] = [state |-> "pending", id |-> PyNone]]
                  /\ pc' = [pc EXCEPT ![i] = "await"]
                  /\ UNCHANGED outcome
               \/ /\ OnException(i)
                  /\ UNCHANGED future
       ELSE /\ pc' = [pc EXCEPT ![i] = "done"]
            /\ outcome' = [outcome EXCEPT ![i] = "skipped_unformed"]
            /\ UNCHANGED <<pubCalls, sent, future>>
    /\ UNCHANGED <<event, context, timestamp, locals, message_json, message_id>>
    /\ UNCHANGED binding

\* The message bus acknowledges the message of worker i with a message id.
BusAck(i) ==
    /\ future[i].state = "pending"
    /\ future' = [future EXCEPT ![i] = [state |-> "acked",
                                        id |-> PyStr("msg-" \o ToString(i))]]
    /\ UNCHANGED <<pc, event, context, timestamp, locals, message_json, sent, pubCalls,
                   message_id, outcome>>
    /\ UNCHANGED binding

\* The message bus fails the publish of worker i.
BusFail(i) ==
    /\ future[i].state = "pending"
    /\ future' = [future EXCEPT ![i] = [state |-> "failed", id |-> PyNone]]
    /\ UNCHANGED <<pc, event, context, timestamp, locals, message_json, sent, pubCalls,
                   message_id, outcome>>
    /\ UNCHANGED binding

\* A plausible slip: the result is taken without waiting for the future.
ResultNotAwaited(i) == TRUE

\* Line 114: future.result() blocks until the future is done.
ResultReady(i) == future[i].state # "pending"

\* A plausible slip: a failed publish is tried again.
AwaitResultRetry(i) ==
    /\ pc[i] = "await"
    /\ ResultReady(i)
    /\ IF future[i].state = "failed"
       THEN /\ pc' = [pc EXCEPT ![i] = "publish"]
            /\ UNCHANGED <<message_id, outcome>>
       ELSE /\ message_id' = [message_id EXCEPT ![i] = future[i].id]
            /\ pc' = [pc EXCEPT ![i] = "done"]
            /\ outcome' = [outcome EXCEPT ![i] = "published"]
    /\ UNCHANGED <<event, context, timestamp, locals, message_json, sent, pubCalls,
                   future>>
    /\ UNCHANGED binding

\* Lines 114-117: result() returns the message id, or raises the publish failure.
AwaitResult(i) ==
    /\ pc[i] = "await"
    /\ ResultReady(i)
    /\ IF future[i].state = "failed"
       THEN /\ OnException(i)
            /\ UNCHANGED message_id
       ELSE /\ message_id' = [message_id EXCEPT ![i] = future[i].id]
            /\ pc' = [pc EXCEPT ![i] = "done"]
            /\ outcome' = [outcome EXCEPT ![i] = "published"]
    /\ UNCHANGED <<event, context, timestamp, locals, message_json, sent, pubCalls,
                   future>>
    /\ UNCHANGED binding

\* The call is over; the worker's frame is dropped and it can take the next event.
Return(i) ==
    /\ pc[i] = "done"
    /\ pc' = [pc EXCEPT ![i] = "idle"]
    /\ event' = [event EXCEPT ![i] = NoEvent]
    /\ context' = [context EXCEPT ![i] = NoContext]
    /\ timestamp' = [timestamp EXCEPT ![i] = PyNone]
    /\ locals' = [locals EXCEPT ![i] = NoLocals]
    /\ message_json' = [message_json EXCEPT ![i] = NoJson]
    /\ sent' = [sent EXCEPT ![i] = NoSent]
    /\ pubCalls' = [pubCalls EXCEPT ![i] = 0]
    /\ future' = [future EXCEPT ![i] = NoFuture]
    /\ message_id' = [message_id EXCEPT ![i] = PyNone]
    /\ outcome' = [outcome EXCEPT ![i] = "none"]
    /\ UNCHANGED binding

Step(i) ==
    \/ LogPayload(i)
    \/ ResolveContext(i)
    \/ Extract(i)
    \/ BuildMessage(i)
    \/ Publish(i)
    \/ BusAck(i)
    \/ BusFail(i)
    \/ AwaitResult(i)
    \/ Return(i)

\* One worker: events are handled one at a time.
Next ==
    \/ ModuleInit
    \/ \E i \in SeqWorkers : Invoke(i) \/ Step(i)

Spec == Init /\ [][Next]_vars

\* The platform runs the handler on several workers at once.
NextConc ==
    \/ ModuleInit
    \/ \E i \in Workers : InvokeConc(i) \/ Step(i)

SpecConc == Init /\ [][NextConc]_vars

----------------------------------------------------------------------------
\* What a subscriber reads back from a published message

\* The scalars the inputs can put into a message.
JsonScalars ==
    LET evs == Events \cup UNION {ConcEvents(i) : i \in Workers}
        ctxs == Contexts \cup UNION {ConcContexts(i) : i \in Workers}
        all == UNION {{e[k] : k \in FieldKeys} \cup {e.data[k] : k \in FieldKeys} : e \in evs}
                 \cup {c.attr : c \in ctxs} \cup {PyNone, SENTINEL}
    IN  {x \in all : x.t \in {"none", "int", "str"}}

\* json.loads of a scalar text: the value whose JSON text it is.
LoadsScalar(text) == CHOOSE x \in JsonScalars : DumpsScalar(x) = text

\* The value under `key` in the bytes worker i handed to publish, decoded.
MsgField(i, key) ==
    LET pairs == sent[i].data.text
        k == CHOOSE n \in 1..Len(pairs) : pairs[n][1] = key
    IN  LoadsScalar(pairs[k][2])

\* The four file fields of worker i's message are the values found in mapping d.
FieldsFrom(i, d) ==
    /\ MsgField(i, "fileName") = d.name
    /\ MsgField(i, "fileSize") = d.size
    /\ MsgField(i, "fileFormat") = d.contentType
    /\ MsgField(i, "bucketName") = d.bucket

TopPresent(e) == e.kind = "dict" /\ \A k \in FieldKeys : e[k] # Absent

TopTruthy(e) == e.kind = "dict" /\ \A k \in FieldKeys : Truthy(e[k])

NestedPresent(e) == e.data.kind = "dict" /\ \A k \in FieldKeys : e.data[k] # Absent

NestedTruthy(e) == e.data.kind = "dict" /\ \A k \in FieldKeys : Truthy(e.data[k])

\* The invocation ended through an exception, caught or not.
Raised(i) == outcome[i] \in {"skipped_error", "raised"}

Skipped(i) == outcome[i] \in {"skipped_missing", "skipped_unformed", "skipped_error"}

----------------------------------------------------------------------------
\* Claims

\* C1 as stated: an event that contains the four fields at the top level, handled
\* with the binding formed, is published with exactly the top-level values
\* (read for the invocations in which nothing raises).
C1_TopLevelPublished ==
    \A i \in Workers :
        (pc[i] = "done" /\ TopPresent(event[i]) /\ Formed /\ ~Raised(i))
            => (pubCalls[i] = 1 /\ FieldsFrom(i, event[i]))

\* C1 amended: when the four top-level fields are all present and truthy and the
\* binding is formed, every publish call carries exactly the top-level values
\* (fileSize with its type), whatever is under 'data', and the invocation ends
\* published with that one call unless an exception ended it.
C1_TruthyTopLevelPublished ==
    \A i \in Workers :
        (TopTruthy(event[i]) /\ Formed) =>
            /\ pubCalls[i] >= 1 => FieldsFrom(i, event[i])
            /\ (pc[i] = "done" /\ ~Raised(i))
                   => (outcome[i] = "published" /\ pubCalls[i] = 1)

\* C1 witness: a complete top-level event that also carries a complete 'data' was
\* published, and its string-typed size came through as a string.
C1_Witness ==
    \E i \in Workers :
        /\ TopTruthy(event[i]) /\ NestedTruthy(event[i])
        /\ event[i].size = PyStr("1024")
        /\ outcome[i] = "published"
        /\ MsgField(i, "fileSize") = PyStr("1024")

\* C2 as stated: an event that misses a top-level field and contains the four
\* fields under 'data', handled with the binding formed, is published with the
\* nested values (read for the invocations in which nothing raises).
C2_NestedPublished ==
    \A i \in Workers :
        (/\ pc[i] = "done" /\ event[i].kind = "dict" /\ ~TopPresent(event[i])
         /\ NestedPresent(event[i]) /\ Formed /\ ~Raised(i))
            => (pubCalls[i] = 1 /\ FieldsFrom(i, event[i].data))

\* C2 amended: when a top-level field is missing or falsy and the four fields under
\* 'data' are all present and truthy, with the binding formed, every publish call
\* carries exactly the nested values, and the invocation ends published with that
\* one call unless an exception ended it.
C2_TruthyNestedPublished ==
    \A i \in Workers :
        (/\ event[i].kind = "dict" /\ ~TopTruthy(event[i])
         /\ NestedTruthy(event[i]) /\ Formed) =>
            /\ pubCalls[i] >= 1 => FieldsFrom(i, event[i].data)
            /\ (pc[i] = "done" /\ ~Raised(i))
                   => (outcome[i] = "published" /\ pubCalls[i] = 1)

\* C2 witness: an event with some top-level fields but not all, and a complete
\* 'data', was published.
C2_Witness ==
    \E i \in Workers :
        /\ event[i].kind = "dict" /\ ~TopPresent(event[i])
        /\ event[i].name # Absent
        /\ NestedTruthy(event[i])
        /\ outcome[i] = "published"
        /\ FieldsFrom(i, event[i].data)

\* C3: an event with a required field missing or falsy at the top level and under
\* 'data' (or no dict under 'data') causes no publish call and the invocation
\* returns normally, without raising.
C3_IncompleteSkipped ==
    \A i \in Workers :
        (/\ event[i].kind = "dict" /\ pc[i] # "idle"
         /\ ~TopTruthy(event[i]) /\ ~NestedTruthy(event[i])) =>
            /\ pubCalls[i] = 0
            /\ outcome[i] # "raised"
            /\ pc[i] = "done" => Skipped(i)

\* C4: with the binding unformed the process still serves, no invocation makes a
\* publish call, and every invocation returns without raising.
C4_UnformedNeverPublishes ==
    (procPc = "serving" /\ ~Formed) =>
        \A i \in Workers : pubCalls[i] = 0 /\ outcome[i] # "raised"

\* C5: no exception leaves process_gcs_file: every invocation returns normally.
C5_NothingEscapes ==
    \A i \in Workers : outcome[i] # "raised"

\* C6: the timestamp of every published message is the context's timestamp
\* attribute when a context is present and has one, and the sentinel otherwise.
C6_TimestampResolution ==
    \A i \in Workers :
        pubCalls[i] >= 1 =>
            MsgField(i, "timestamp") =
                IF context[i].kind = "object" /\ context[i].attr # Absent
                THEN context[i].attr
                ELSE SENTINEL

\* C7: an invocation makes at most one publish call; once that call raised or its
\* future failed, the invocation ends skipped and has made no further call.
C7_AtMostOnePublish ==
    \A i \in Workers :
        /\ pubCalls[i] <= 1
        /\ future[i].state = "failed" => pc[i] \in {"await", "done"}
        /\ (pc[i] = "done" /\ pubCalls[i] = 1 /\ future[i].state # "acked")
               => outcome[i] = "skipped_error"

\* C7 witness: an invocation whose publish future failed has ended skipped, with
\* its single publish call.
C7_Witness ==
    \E i \in Workers :
        /\ future[i].state = "failed"
        /\ pc[i] = "done"
        /\ outcome[i] = "skipped_error"
        /\ pubCalls[i] = 1

\* The message of worker i holds values of its own event and context only.
OwnMessage(i) ==
    /\ FieldsFrom(i, event[i]) \/ FieldsFrom(i, event[i].data)
    /\ MsgField(i, "timestamp") \in {context[i].attr, SENTINEL}

\* C8: under every interleaving of concurrent invocations the binding keeps the
\* value it got at process start, and each published message is built from the
\* publishing invocation's own event and context.
C8_Isolation ==
    /\ [][procPc = "serving" => UNCHANGED <<PUBLISHER, TOPIC_PATH>>]_vars
    /\ [](\A i \in Workers : pubCalls[i] >= 1 => OwnMessage(i))

\* C8 witness: two invocations have their publish calls in flight at once.
C8_Witness ==
    \E i, j \in Workers :
        /\ i # j
        /\ pc[i] = "await" /\ pc[j] = "await"
        /\ pubCalls[i] = 1 /\ pubCalls[j] = 1
        /\ sent[i] # sent[j]

\* The four fields are complete only by combining the top level with 'data'.
MixOnly(e) ==
    /\ e.kind = "dict"
    /\ ~TopTruthy(e) /\ ~NestedTruthy(e)
    /\ \A k \in FieldKeys : Truthy(e[k]) \/ (e.data.kind = "dict" /\ Truthy(e.data[k]))

\* Worker i is past the extraction of lines 77-93.
Extracted(i) ==
    /\ event[i].kind = "dict"
    /\ pc[i] \in {"build", "publish", "await"} \/ (pc[i] = "done" /\ outcome[i] # "raised")

\* C9: when a top-level field is missing or falsy and 'data' is a non-empty dict,
\* all four locals are the values under 'data'; a published message takes its four
\* fields from one location; an event complete only by combining both locations is
\* not published.
C9_SingleSource ==
    \A i \in Workers :
        /\ (Extracted(i) /\ ~TopTruthy(event[i]) /\ UsableData(event[i].data))
               => locals[i] = GetFields(event[i].data)
        /\ pubCalls[i] >= 1
               => (FieldsFrom(i, event[i]) \/ FieldsFrom(i, event[i].data))
        /\ MixOnly(event[i])
               => (pubCalls[i] = 0 /\ outcome[i] # "published")

\* C9 witness: an event complete only by combining both locations was skipped, and
\* a top-level value that was present was overwritten by the missing nested one.
C9_Witness ==
    \E i \in Workers :
        /\ MixOnly(event[i])
        /\ Truthy(event[i].name) /\ event[i].data.name = Absent
        /\ pc[i] = "done"
        /\ outcome[i] = "skipped_missing"
        /\ locals[i].file_name = PyNone

\* C10: an invocation ends published only after its publish was acknowledged, with
\* the acknowledged message id; while the publish is unacknowledged the invocation
\* is still waiting.
C10_PublishAwaited ==
    \A i \in Workers :
        /\ outcome[i] = "published"
               => (future[i].state = "acked" /\ message_id[i] = future[i].id)
        /\ future[i].state = "pending" => pc[i] = "await"

\* C10 witness: an invocation ended published with the acknowledged id.
C10_Witness ==
    \E i \in Workers :
        /\ outcome[i] = "published"
        /\ pc[i] = "done"
        /\ Truthy(message_id[i])

====
